---- MODULE Spec2Model ----
(***************************************************************************)
(* Yale Smart Alarm control panel entity (YaleAlarmDevice).                *)
(*                                                                         *)
(* The entity runs on a cooperative event loop: a command coroutine runs   *)
(* without interruption up to its single await (the vendor call offloaded  *)
(* to the executor), the executor thread runs the blocking vendor call,    *)
(* and the event loop later resumes the coroutine with the call's result.  *)
(***************************************************************************)
EXTENDS Integers, Sequences, FiniteSets, TLC

\* ------------------------------------------------------------------ bounds
NumTasks == 2
MaxCodeLen == 4

Tasks == 1..NumTasks

\* ------------------------------------------------------- vendor vocabulary
YALE_STATE_ARM_FULL == "arm"
YALE_STATE_ARM_PARTIAL == "home"
YALE_STATE_DISARM == "disarm"

\* a status string of the vendor that the mapping table does not know
UnknownKeyword == "unavailable"

Commands == {YALE_STATE_ARM_FULL, YALE_STATE_ARM_PARTIAL, YALE_STATE_DISARM}
Keywords == Commands \cup {UnknownKeyword}

\* Python's None, as the value of a lookup that found nothing
None == "None"

\* STATE_MAP of .const: vendor keyword -> platform alarm state
STATE_MAP ==
  [k \in Commands |->
     CASE k = YALE_STATE_DISARM -> "disarmed"
       [] k = YALE_STATE_ARM_PARTIAL -> "armed_home"
       [] k = YALE_STATE_ARM_FULL -> "armed_away"]

\* dict.get: the mapped value, None when the key is absent
StateMapGet(k) == IF k \in DOMAIN STATE_MAP THEN STATE_MAP[k] ELSE None

\* -------------------------------------------------------------------- codes
\* a code is a sequence of characters; an optional code is <<>> (None) or <<c>>
Digits == {"1", "2", "4", "9"}
Letters == {"a", "b", "c", "d"}
Alphabet == Digits \cup Letters

AllCodes == UNION {[1..n -> Alphabet] : n \in 0..MaxCodeLen}

Code9999 == <<"9", "9", "9", "9">>
Code999 == <<"9", "9", "9">>

NoCode == <<>>
SomeCode(c) == <<c>>

\* the stored codes and the code arguments the command model draws from
StoredCodes == {Code9999}
ArgCodes == {NoCode, SomeCode(Code9999), SomeCode(Code999)}

\* slip: only the first character is looked at
IsDigit_FirstOnly(s) == Len(s) > 0 /\ s[1] \in Digits

\* str.isdigit: every character is a digit and there is at least one
IsDigit(s) == Len(s) > 0 /\ \A i \in 1..Len(s) : s[i] \in Digits

\* CodeFormat
NUMBER == "number"
TEXT == "text"

\* YaleAlarmDevice.code_format
code_format(code) == IF IsDigit(code) THEN NUMBER ELSE TEXT

\* ------------------------------------------------------------ vendor results
\* what a vendor call can do: return a success indicator, or raise one of
\* YALE_ALL_ERRORS with a message
ErrorTexts == {"timeout"}
Returned(b) == [raised |-> FALSE, value |-> b, msg |-> ""]
Raised(m) == [raised |-> TRUE, value |-> FALSE, msg |-> m]
VendorResults == {Returned(TRUE), Returned(FALSE)} \cup {Raised(m) : m \in ErrorTexts}
NoResult == [raised |-> FALSE, value |-> FALSE, msg |-> "-"]

\* str(error)
Str(error) == error.msg

DeviceNames == {"Yale Smart Alarm"}

\* ------------------------------------------------------------------ outcomes
NoOutcome == [kind |-> "none", name |-> "", error |-> ""]
ReturnedNormally == [kind |-> "returned", name |-> "", error |-> ""]
\* HomeAssistantError("Invalid code")
InvalidCode == [kind |-> "Invalid code", name |-> "", error |-> ""]
\* HomeAssistantError(translation_key="set_alarm", placeholders name, error)
SetAlarmError(n, e) == [kind |-> "set_alarm", name |-> n, error |-> e]
\* HomeAssistantError(translation_key="could_not_change_alarm")
CouldNotChangeAlarm == [kind |-> "could_not_change_alarm", name |-> "", error |-> ""]

Ops == {"disarm", "arm_home", "arm_away"}

VARIABLES
  storedCode,    \* self._code
  deviceName,    \* coordinator.entry.data[CONF_NAME]
  alarm,         \* coordinator.data["alarm"]
  platAvail,     \* super().available
  applied,       \* the keyword the vendor holds: the status at start, then the
                 \* target of the latest vendor call that returned truthy
  pc,            \* per command slot: "idle", "awaiting", "returned", "done"
  op,            \* the command invoked in the slot
  argCode,       \* its code argument, kept until the vendor call runs (no code
                 \* after the check reads it)
  command,       \* the target keyword handed to async_set_alarm
  res,           \* the result of its vendor call
  outcome,       \* how the invocation ended
  calls,         \* the vendor calls the invocation made, in order
  writes,        \* the writes of data["alarm"] the invocation made
  publishes,     \* the async_write_ha_state calls the invocation made
  fmt            \* the last value read from code_format

vars == <<storedCode, deviceName, alarm, platAvail, applied, pc, op, argCode,
          command, res, outcome, calls, writes, publishes, fmt>>

config == <<storedCode, deviceName>>
taskVars == <<pc, op, argCode, command, res, outcome, calls, writes, publishes>>

\* ------------------------------------------------------- the entity's code
\* the target keyword each command hands to async_set_alarm
TargetOf(o) ==
  CASE o = "disarm" -> YALE_STATE_DISARM
    [] o = "arm_home" -> YALE_STATE_ARM_PARTIAL
    [] o = "arm_away" -> YALE_STATE_ARM_FULL

\* slip: every command checks the code
MustValidate_Always(o) == TRUE

\* only async_alarm_disarm calls _async_validate_code
MustValidate(o) == o = "disarm"

\* slip: an absent code passes the check
ValidateFails_AbsentPasses(code, stored) == code # NoCode /\ code # SomeCode(stored)

\* _async_validate_code raises: the optional code differs from the stored one
ValidateFails(code, stored) == code # SomeCode(stored)

\* slip: the disarm branch offloads arm_full
VendorFn_DisarmArms(cmd) ==
  CASE cmd = YALE_STATE_ARM_FULL -> "arm_full"
    [] cmd = YALE_STATE_ARM_PARTIAL -> "arm_partial"
    [] cmd = YALE_STATE_DISARM -> "arm_full"

\* the vendor call async_set_alarm offloads for a command
VendorFn(cmd) ==
  CASE cmd = YALE_STATE_ARM_FULL -> "arm_full"
    [] cmd = YALE_STATE_ARM_PARTIAL -> "arm_partial"
    [] cmd = YALE_STATE_DISARM -> "disarm"

\* slip: the target is written optimistically, before the await
AlarmAtDispatch_Optimistic(cmd, old) == cmd

\* data["alarm"] while the vendor call is being offloaded: not written
AlarmAtDispatch(cmd, old) == old

\* a result that did not raise and is truthy
Truthy(r) == ~r.raised /\ r.value

\* slip: the field is written before the result is tested
AfterCall_WritesOnFalsy(r, cmd, old, name) ==
  IF r.raised
    THEN [alarm |-> old, writes |-> 0, publishes |-> 0,
          outcome |-> SetAlarmError(name, Str(r))]
  ELSE IF r.value
    THEN [alarm |-> cmd, writes |-> 1, publishes |-> 1,
          outcome |-> ReturnedNormally]
  ELSE [alarm |-> cmd, writes |-> 1, publishes |-> 0,
        outcome |-> CouldNotChangeAlarm]

\* slip: a falsy result is not tested, the coroutine returns normally
AfterCall_FalsyReturns(r, cmd, old, name) ==
  IF r.raised
    THEN [alarm |-> old, writes |-> 0, publishes |-> 0,
          outcome |-> SetAlarmError(name, Str(r))]
  ELSE IF r.value
    THEN [alarm |-> cmd, writes |-> 1, publishes |-> 1,
          outcome |-> ReturnedNormally]
  ELSE [alarm |-> old, writes |-> 0, publishes |-> 0,
        outcome |-> ReturnedNormally]

\* slip: success publishes without storing the target keyword
AfterCall_NoStore(r, cmd, old, name) ==
  IF r.raised
    THEN [alarm |-> old, writes |-> 0, publishes |-> 0,
          outcome |-> SetAlarmError(name, Str(r))]
  ELSE IF r.value
    THEN [alarm |-> old, writes |-> 0, publishes |-> 1,
          outcome |-> ReturnedNormally]
  ELSE [alarm |-> old, writes |-> 0, publishes |-> 0,
        outcome |-> CouldNotChangeAlarm]

\* async_set_alarm once resumed with result r of the vendor call: the value
\* of data["alarm"], the writes of it, the async_write_ha_state calls, and
\* how the coroutine ends
AfterCall(r, cmd, old, name) ==
  IF r.raised
    THEN [alarm |-> old, writes |-> 0, publishes |-> 0,
          outcome |-> SetAlarmError(name, Str(r))]
  ELSE IF r.value
    THEN [alarm |-> cmd, writes |-> 1, publishes |-> 1,
          outcome |-> ReturnedNormally]
  ELSE [alarm |-> old, writes |-> 0, publishes |-> 0,
        outcome |-> CouldNotChangeAlarm]

\* slip: the mapping table is not consulted
available_PlatformOnly(k, platform) == platform

\* YaleAlarmDevice.available
available(k, platform) == IF StateMapGet(k) = None THEN FALSE ELSE platform

\* YaleAlarmDevice.state
state(k) == StateMapGet(k)

\* ------------------------------------------------------------------ actions
TaskInit ==
  /\ pc = [t \in Tasks |-> "idle"]
  /\ op = [t \in Tasks |-> "none"]
  /\ argCode = [t \in Tasks |-> NoCode]
  /\ command = [t \in Tasks |-> "none"]
  /\ res = [t \in Tasks |-> NoResult]
  /\ outcome = [t \in Tasks |-> NoOutcome]
  /\ calls = [t \in Tasks |-> <<>>]
  /\ writes = [t \in Tasks |-> 0]
  /\ publishes = [t \in Tasks |-> 0]

Init ==
  /\ storedCode \in StoredCodes
  /\ deviceName \in DeviceNames
  /\ alarm \in Keywords
  /\ platAvail \in BOOLEAN
  /\ applied = alarm
  /\ fmt = "unread"
  /\ TaskInit

\* a command coroutine runs from its call to its await: the code check of
\* disarm, then the vendor call handed to the executor
Invoke(t, o, c) ==
  /\ pc[t] = "idle"
  /\ op' = [op EXCEPT ![t] = o]
  /\ argCode' = [argCode EXCEPT ![t] = c]
  /\ IF MustValidate(o) /\ ValidateFails(c, storedCode)
       THEN /\ pc' = [pc EXCEPT ![t] = "done"]
            /\ outcome' = [outcome EXCEPT ![t] = InvalidCode]
            /\ command' = [command EXCEPT ![t] = "none"]
            /\ alarm' = alarm
       ELSE /\ pc' = [pc EXCEPT ![t] = "awaiting"]
            /\ outcome' = [outcome EXCEPT ![t] = NoOutcome]
            /\ command' = [command EXCEPT ![t] = TargetOf(o)]
            /\ alarm' = AlarmAtDispatch(TargetOf(o), alarm)
  /\ UNCHANGED <<config, platAvail, applied, res, calls, writes, publishes, fmt>>

\* the executor thread runs the blocking vendor call; a truthy result means
\* the vendor now holds the command's target
VendorRun(t, r) ==
  /\ pc[t] = "awaiting"
  /\ pc' = [pc EXCEPT ![t] = "returned"]
  /\ res' = [res EXCEPT ![t] = r]
  /\ calls' = [calls EXCEPT ![t] = Append(@, VendorFn(command[t]))]
  /\ applied' = IF Truthy(r) THEN command[t] ELSE applied
  /\ argCode' = [argCode EXCEPT ![t] = NoCode]
  /\ UNCHANGED <<config, alarm, platAvail, op, command, outcome,
                 writes, publishes, fmt>>

\* the event loop resumes async_set_alarm with the result of the call
Resume(t) ==
  /\ pc[t] = "returned"
  /\ pc' = [pc EXCEPT ![t] = "done"]
  /\ LET after == AfterCall(res[t], command[t], alarm, deviceName) IN
       /\ outcome' = [outcome EXCEPT ![t] = after.outcome]
       /\ alarm' = after.alarm
       /\ writes' = [writes EXCEPT ![t] = after.writes]
       /\ publishes' = [publishes EXCEPT ![t] = after.publishes]
  /\ UNCHANGED <<config, platAvail, applied, op, argCode, command, res, calls, fmt>>

\* the caller has seen the outcome; the slot is free for the next command
Return(t) ==
  /\ pc[t] = "done"
  /\ pc' = [pc EXCEPT ![t] = "idle"]
  /\ op' = [op EXCEPT ![t] = "none"]
  /\ argCode' = [argCode EXCEPT ![t] = NoCode]
  /\ command' = [command EXCEPT ![t] = "none"]
  /\ res' = [res EXCEPT ![t] = NoResult]
  /\ outcome' = [outcome EXCEPT ![t] = NoOutcome]
  /\ calls' = [calls EXCEPT ![t] = <<>>]
  /\ writes' = [writes EXCEPT ![t] = 0]
  /\ publishes' = [publishes EXCEPT ![t] = 0]
  /\ UNCHANGED <<config, alarm, platAvail, applied, fmt>>

\* the coordinator's refresh overwrites data["alarm"] with the polled status
CoordinatorUpdate(k) ==
  /\ alarm' = k
  /\ UNCHANGED <<config, platAvail, applied, taskVars, fmt>>

\* the platform-level availability changes
PlatformAvailability(b) ==
  /\ platAvail' = b
  /\ UNCHANGED <<config, alarm, applied, taskVars, fmt>>

\* the platform reads the code_format property
ReadCodeFormat ==
  /\ fmt' = code_format(storedCode)
  /\ UNCHANGED <<config, alarm, platAvail, applied, taskVars>>

InvokeAny == \E t \in Tasks, o \in Ops, c \in ArgCodes : Invoke(t, o, c)
VendorRunAny == \E t \in Tasks, r \in VendorResults : VendorRun(t, r)
ResumeAny == \E t \in Tasks : Resume(t)
ReturnAny == \E t \in Tasks : Return(t)
CoordinatorUpdateAny == \E k \in Keywords : CoordinatorUpdate(k)
PlatformAvailabilityAny == \E b \in BOOLEAN : PlatformAvailability(b)

Next ==
  \/ InvokeAny
  \/ VendorRunAny
  \/ ResumeAny
  \/ ReturnAny
  \/ CoordinatorUpdateAny
  \/ PlatformAvailabilityAny

Spec == Init /\ [][Next]_vars

\* no command is in flight
Quiescent == \A t \in Tasks : pc[t] \in {"idle", "done"}

\* commands only, overlapping, with no coordinator refresh
NextCmds ==
  \/ InvokeAny
  \/ VendorRunAny
  \/ ResumeAny
  \/ ReturnAny

SpecCmds == Init /\ [][NextCmds]_vars

\* commands only, one at a time, with no coordinator refresh
InvokeSeq == Quiescent /\ InvokeAny

NextSeq ==
  \/ InvokeSeq
  \/ VendorRunAny
  \/ ResumeAny
  \/ ReturnAny

SpecSeq == Init /\ [][NextSeq]_vars

\* the code_format property over every stored code
InitFmt ==
  /\ storedCode \in AllCodes
  /\ deviceName \in DeviceNames
  /\ alarm = YALE_STATE_DISARM
  /\ platAvail = TRUE
  /\ applied = alarm
  /\ fmt = "unread"
  /\ TaskInit

NextFmt == ReadCodeFormat

SpecFmt == InitFmt /\ [][NextFmt]_vars

\* ---------------------------------------------------------------- properties

\* C1: a disarm whose code (an absent code included) is not exactly the stored
\* code ends at once in the "Invalid code" error, having made no vendor call
\* and without reaching the dispatcher; only a disarm with the exact code ever
\* waits for a vendor call.
C1_MismatchedDisarmRejected ==
  /\ [](\A t \in Tasks :
          /\ (op[t] = "disarm" /\ pc[t] = "awaiting") => argCode[t] = SomeCode(storedCode)
          /\ outcome[t] = InvalidCode =>
               pc[t] = "done" /\ calls[t] = <<>> /\ command[t] = "none")
  /\ [][\A t \in Tasks :
          (/\ pc[t] = "idle" /\ pc'[t] # "idle"
           /\ op'[t] = "disarm"
           /\ argCode'[t] # SomeCode(storedCode))
          => /\ pc'[t] = "done"
             /\ outcome'[t] = InvalidCode
             /\ calls'[t] = <<>>
             /\ command'[t] = "none"]_vars

C1_Witness ==
  \E t, u \in Tasks :
    /\ op[t] = "disarm" /\ argCode[t] = NoCode /\ outcome[t] = InvalidCode
    /\ op[u] = "disarm" /\ argCode[u] = SomeCode(Code999) /\ outcome[u] = InvalidCode

\* C2: a disarm with the stored code makes exactly one vendor call, disarm(),
\* and no other; when that call returned a truthy result, the state read as
\* the coroutine returns is the mapped value of the DISARM keyword.
C2_DisarmCallsVendorOnce ==
  /\ [](\A t \in Tasks :
          (op[t] = "disarm" /\ outcome[t] # InvalidCode) =>
             /\ pc[t] = "awaiting" => calls[t] = <<>>
             /\ pc[t] \in {"returned", "done"} => calls[t] = <<"disarm">>)
  /\ [][\A t \in Tasks :
          (/\ op[t] = "disarm"
           /\ pc[t] = "returned" /\ pc'[t] = "done"
           /\ ~res[t].raised /\ res[t].value)
          => /\ state(alarm') = STATE_MAP[YALE_STATE_DISARM]
             /\ calls'[t] = <<"disarm">>]_vars

C2_Witness ==
  \E t \in Tasks :
    /\ op[t] = "disarm" /\ pc[t] = "done" /\ outcome[t] = ReturnedNormally
    /\ calls[t] = <<"disarm">>
    /\ state(alarm) = "disarmed"

\* C3: arm_home and arm_away never check the code: with no code, a wrong code
\* or the stored code they go on to the vendor, arm_home to exactly one
\* arm_partial() and arm_away to exactly one arm_full(), and never end in the
\* "Invalid code" error.
C3_ArmIgnoresCode ==
  /\ [](\A t \in Tasks :
          op[t] \in {"arm_home", "arm_away"} =>
             /\ outcome[t] # InvalidCode
             /\ pc[t] = "awaiting" => calls[t] = <<>>
             /\ pc[t] \in {"returned", "done"} =>
                  calls[t] = <<IF op[t] = "arm_home" THEN "arm_partial" ELSE "arm_full">>)
  /\ [][\A t \in Tasks :
          (pc[t] = "idle" /\ pc'[t] # "idle" /\ op'[t] \in {"arm_home", "arm_away"})
          => /\ pc'[t] = "awaiting"
             /\ command'[t] = (IF op'[t] = "arm_home" THEN YALE_STATE_ARM_PARTIAL
                               ELSE YALE_STATE_ARM_FULL)]_vars

C3_Witness ==
  \E t, u \in Tasks :
    /\ op[t] = "arm_home" /\ pc[t] = "awaiting" /\ argCode[t] = SomeCode(Code999)
    /\ op[u] = "arm_away" /\ pc[u] = "done" /\ calls[u] = <<"arm_full">>

\* C4: a command that ends in an error (code mismatch, vendor error, falsy
\* result) has written data["alarm"] zero times and published nothing, and the
\* step in which it ends leaves the field as it was; a command has written or
\* published only if its vendor call returned a truthy result.
C4_FailureLeavesAlarm ==
  /\ [](\A t \in Tasks :
          /\ (pc[t] = "done" /\ outcome[t].kind \in
                {"Invalid code", "set_alarm", "could_not_change_alarm"})
               => writes[t] = 0 /\ publishes[t] = 0
          /\ (writes[t] > 0 \/ publishes[t] > 0) => (~res[t].raised /\ res[t].value))
  /\ [][\A t \in Tasks :
          (/\ pc[t] # "done" /\ pc'[t] = "done"
           /\ outcome'[t].kind \in {"Invalid code", "set_alarm", "could_not_change_alarm"})
          => alarm' = alarm]_vars

C4_Witness ==
  \E t, u \in Tasks :
    /\ pc[t] = "done" /\ outcome[t].kind = "set_alarm" /\ writes[t] = 0
    /\ pc[u] = "done" /\ outcome[u].kind = "could_not_change_alarm" /\ writes[u] = 0

\* C5: for each of the three target keywords the end of the dispatcher is
\* fixed by the vendor call's result: a raised vendor error gives the
\* "set_alarm" error with the configured device name and the error's text, a
\* falsy return gives the "could_not_change_alarm" error, a truthy return
\* returns normally; exactly one of the three happens.
C5_OutcomeFollowsResult ==
  \A t \in Tasks :
    (pc[t] = "done" /\ command[t] \in Commands) =>
       /\ res[t].raised =>
            outcome[t] = [kind |-> "set_alarm", name |-> deviceName, error |-> res[t].msg]
       /\ (~res[t].raised /\ ~res[t].value) => outcome[t].kind = "could_not_change_alarm"
       /\ (~res[t].raised /\ res[t].value) => outcome[t].kind = "returned"
       /\ Cardinality({k \in {"set_alarm", "could_not_change_alarm", "returned"} :
                         outcome[t].kind = k}) = 1

C5_Witness ==
  \E t, u \in Tasks :
    /\ pc[t] = "done" /\ res[t].raised /\ outcome[t].error = "timeout"
    /\ outcome[t].name \in DeviceNames
    /\ pc[u] = "done" /\ ~res[u].raised /\ ~res[u].value
    /\ outcome[u].kind = "could_not_change_alarm"

\* C6: with commands run one at a time and no coordinator refresh, whenever no
\* command is in flight the state property is the mapped value of the target
\* of the latest command whose vendor call returned truthy, or of the initial
\* field value when none has.
C6_StateFollowsLastSuccess ==
  Quiescent => state(alarm) = StateMapGet(applied)

\* stored code "9999": arm_away(None) succeeded, then disarm("9999") succeeded
C6_Witness ==
  \E t, u \in Tasks :
    /\ storedCode = Code9999
    /\ op[t] = "arm_away" /\ pc[t] = "done" /\ outcome[t] = ReturnedNormally
    /\ op[u] = "disarm" /\ pc[u] = "done" /\ outcome[u] = ReturnedNormally
    /\ applied = YALE_STATE_DISARM
    /\ state(alarm) = "disarmed"

\* C7: available is true exactly when data["alarm"] is a keyword of the
\* mapping table and the platform-level availability is true; with a keyword
\* outside the table available is false and state is None.
C7_AvailableIffMapped ==
  /\ available(alarm, platAvail) = (alarm \in DOMAIN STATE_MAP /\ platAvail)
  /\ alarm \notin DOMAIN STATE_MAP =>
       (~available(alarm, platAvail) /\ state(alarm) = None)

\* a command succeeded, then the coordinator polled an unknown status
C7_Witness ==
  /\ alarm = UnknownKeyword
  /\ platAvail
  /\ ~available(alarm, platAvail)
  /\ state(alarm) = None
  /\ \E t \in Tasks : pc[t] = "done" /\ writes[t] = 1

\* C8 as stated: code_format is NUMBER when every character of the stored code
\* is a digit, the empty code included, and TEXT otherwise.
C8_AllDigitsIsNumber ==
  fmt # "unread" =>
    fmt = (IF \A i \in 1..Len(storedCode) : storedCode[i] \in Digits
           THEN NUMBER ELSE TEXT)

\* C8 amended: code_format is NUMBER when the stored code is not empty and
\* every character of it is a digit, and TEXT otherwise (the empty code
\* included); reading it changes nothing else.
C8_NonEmptyDigitsIsNumber ==
  /\ [](fmt # "unread" =>
          /\ fmt \in {NUMBER, TEXT}
          /\ fmt = NUMBER <=>
               (/\ storedCode # <<>>
                /\ {storedCode[i] : i \in 1..Len(storedCode)} \subseteq Digits))
  /\ [][fmt' # fmt =>
          UNCHANGED <<storedCode, deviceName, alarm, platAvail, applied, taskVars>>]_vars

C8_Witness ==
  /\ storedCode = <<"1", "2", "a", "4">>
  /\ fmt = TEXT

\* C9: under every interleaving of commands, data["alarm"] changes only in the
\* coordinator's refresh or in the one step in which a command whose vendor
\* call returned truthy resumes, and then to that command's target; a command
\* writes at most once and no step holds the writes of two commands.
C9_OnlySuccessWrites ==
  /\ [](\A t \in Tasks :
          /\ writes[t] \in {0, 1}
          /\ writes[t] = 1 => (pc[t] = "done" /\ ~res[t].raised /\ res[t].value))
  /\ [][alarm' # alarm =>
          \/ taskVars' = taskVars
          \/ \E t \in Tasks :
               /\ pc[t] = "returned" /\ pc'[t] = "done"
               /\ ~res[t].raised /\ res[t].value
               /\ alarm' = command[t]
               /\ writes'[t] = 1
               /\ \A u \in Tasks \ {t} : pc'[u] = pc[u] /\ writes'[u] = writes[u]]_vars

C9_Witness ==
  \E t, u \in Tasks :
    /\ pc[t] = "done" /\ writes[t] = 1 /\ alarm = command[t]
    /\ pc[u] = "returned" /\ ~res[u].raised /\ res[u].value
    /\ command[u] # command[t]

\* C10: once overlapping commands have all completed successfully, with no
\* coordinator refresh, data["alarm"] is the keyword the vendor applied last.
C10_AgreesWithVendor ==
  (\A t \in Tasks : pc[t] = "done" /\ outcome[t] = ReturnedNormally)
    => alarm = applied

====
